---- MODULE Spec2Model ----
(***************************************************************************)
(* Model of PlannerAgent.execute and PlannerAgent.executeWithServerPlan    *)
(* (chrome-extension/src/background/agent/agents/planner.ts).              *)
(*                                                                         *)
(* One behaviour is one invocation of execute().  The code between two     *)
(* awaits runs atomically (single-threaded event loop), so an action is    *)
(* the stretch of code from one suspension point to the next.  The only    *)
(* suspension points are the remote fetch, the reading of the response     *)
(* body and the LLM invocation.                                            *)
(*                                                                         *)
(* A JavaScript string is a sequence of characters, an optional value is   *)
(* a sequence of length 0 (undefined / null) or 1.                         *)
(***************************************************************************)
EXTENDS Integers, Sequences, FiniteSets, TLC

\* ------------------------------------------------------------------ bounds
MaxSteps == 1   \* the step index of the context ranges over 0..MaxSteps
MaxTail  == 1   \* entries of the message history after the first one
MaxEndpointLen == 3   \* characters of a configured endpoint base
MaxCalls == 2   \* calls of ensureDefaultConfiguration, possibly overlapping

\* ---------------------------------------------------------- optional values
None == <<>>
Some(v) == <<v>>
IsSome(o) == Len(o) = 1
IsNone(o) == Len(o) = 0
Get(o) == o[1]

\* ------------------------------------------------------------------ strings
Str(s) == <<s>>           \* a one-character string
EmptyStr == <<>>
\* JavaScript truthiness of a string: the empty string is falsy
TruthyStr(s) == Len(s) > 0

LowerChar(c) ==
  CASE c = "T" -> "t"
    [] c = "R" -> "r"
    [] c = "U" -> "u"
    [] c = "E" -> "e"
    [] c = "F" -> "f"
    [] c = "A" -> "a"
    [] c = "L" -> "l"
    [] c = "S" -> "s"
    [] OTHER -> c

\* String.prototype.toLowerCase
toLowerCase(s) == [i \in 1..Len(s) |-> LowerChar(s[i])]

StrTrue  == <<"t", "r", "u", "e">>
StrFalse == <<"f", "a", "l", "s", "e">>

\* ------------------------------------------------- plannerOutputSchema (zod)
TextFields == {"observation", "challenges", "next_steps", "final_answer", "reasoning"}
BoolFields == {"done", "web_task"}
PlanFields == TextFields \cup BoolFields

\* A raw JSON value: t is its JavaScript type, s its value when it is a
\* string, b its value when it is a boolean.
RawString(s)  == [t |-> "string",    s |-> s,        b |-> FALSE]
RawBool(b)    == [t |-> "boolean",   s |-> EmptyStr, b |-> b]
RawNumber     == [t |-> "number",    s |-> EmptyStr, b |-> FALSE]
RawUndefined  == [t |-> "undefined", s |-> EmptyStr, b |-> FALSE]

\* z.string()
StringAccepts(v) == v.t = "string"

\* slip: the comparison is case-sensitive
TransformThrows_caseSensitive(s) == s # StrTrue /\ s # StrFalse

\* the transform of the string member of the union: throws on any string
\* other than "true" / "false" compared case-insensitively
TransformThrows(s) == toLowerCase(s) # StrTrue /\ toLowerCase(s) # StrFalse
Transform(s) == toLowerCase(s) = StrTrue

\* z.union([z.boolean(), z.string().transform(...)])
BoolUnionAccepts(v) ==
  \/ v.t = "boolean"
  \/ v.t = "string" /\ ~TransformThrows(v.s)
BoolUnionValue(v) == IF v.t = "boolean" THEN v.b ELSE Transform(v.s)

\* plannerOutputSchema.parse(raw) succeeds; raw is [isObject, fields]
SchemaAccepts(raw) ==
  /\ raw.isObject
  /\ \A f \in TextFields : StringAccepts(raw.fields[f])
  /\ \A f \in BoolFields : BoolUnionAccepts(raw.fields[f])

\* the PlannerOutput produced by a successful parse
SchemaParse(raw) ==
  [observation  |-> raw.fields["observation"].s,
   challenges   |-> raw.fields["challenges"].s,
   done         |-> BoolUnionValue(raw.fields["done"]),
   next_steps   |-> raw.fields["next_steps"].s,
   final_answer |-> raw.fields["final_answer"].s,
   reasoning    |-> raw.fields["reasoning"].s,
   web_task     |-> BoolUnionValue(raw.fields["web_task"])]

\* ------------------------------------------------------- content sanitizer
\* Characters that mark content of untrusted external origin.
Markers == {"<", ">"}
\* filterExternalContent: removes the markers, keeps everything else in order
filterExternalContent(text) == SelectSeq(text, LAMBDA c : c \notin Markers)


\* ------------------------------------------------------------------ errors
\* An error value raised by a collaborator.  kind tells whether it is an
\* Error instance, a thrown string or a thrown plain object; message is
\* error.message (the string itself for a thrown string); preds is the set
\* of classification predicates of ./errors the value satisfies.
Preds == {"auth", "badRequest", "aborted", "forbidden"}

MkError(kind, message, preds) == [kind |-> kind, message |-> message, preds |-> preds]

isAuthenticationError(error) == "auth" \in error.preds
isBadRequestError(error)     == "badRequest" \in error.preds
isAbortedError(error)        == "aborted" \in error.preds
isForbiddenError(error)      == "forbidden" \in error.preds

LLM_FORBIDDEN_ERROR_MESSAGE == <<"LLM_FORBIDDEN_ERROR_MESSAGE">>

\* String(error) for a value that is not an Error instance
StringOf(error) == IF error.kind = "string" THEN error.message ELSE <<"[object Object]">>

\* error instanceof Error ? error.message : String(error)
ErrorMessage(error) == IF error.kind = "Error" THEN error.message ELSE StringOf(error)

\* the error the signal's abort makes an in-flight fetch or LLM call raise
AbortError == MkError("Error", <<"The operation was aborted">>, {"aborted"})
\* fetch rejects: network failure
NetworkError == MkError("Error", <<"Failed to fetch">>, {})
\* response.json() rejects: body is not JSON
SyntaxError == MkError("Error", <<"Unexpected token">>, {})
\* plannerOutputSchema.parse throws
ValidationError == MkError("Error", <<"Invalid planner output">>, {})
\* throw new Error(`Server returned ${response.status}: ${response.statusText}`)
StatusError(status) == MkError("Error", <<"Server returned ", ToString(status)>>, {})
\* throw new Error('Server plan endpoint not configured')
EndpointError == MkError("Error", <<"Server plan endpoint not configured">>, {})
\* slip: no null check, the null output is dereferenced at line 120
OutputError_nullDereference == MkError("Error", <<"Cannot read properties of null">>, {})

\* throw new Error('Failed to validate planner output')
OutputError == MkError("Error", <<"Failed to validate planner output">>, {})

\* ------------------------------------------------------------------ events
STEP_START == "STEP_START"
STEP_OK    == "STEP_OK"
STEP_FAIL  == "STEP_FAIL"
Event(state, data) == [actor |-> "planner", state |-> state, data |-> data]

\* ---------------------------------------------------------------- messages
\* A message: content is a string (isArray = FALSE) or an array of segments
\* (isArray = TRUE), a segment being text or image_url.
TextMessage(role, content) == [role |-> role, isArray |-> FALSE, content |-> content, segs |-> <<>>]
ArrayMessage(role, segs)   == [role |-> role, isArray |-> TRUE, content |-> EmptyStr, segs |-> segs]
TextSeg(text) == [type |-> "text", text |-> text]
ImageSeg      == [type |-> "image_url", text |-> EmptyStr]
HumanMessage(content) == TextMessage("human", content)

\* this.prompt.getSystemMessage(): the agent's own system prompt
SystemMessage == TextMessage("system", <<"P">>)

\* slip: the first entry of the history is kept
Slice1_all(messages) == messages

\* messages.slice(1)
Slice1(messages) == SubSeq(messages, 2, Len(messages))

RECURSIVE ConcatText(_)
\* the loop of lines 82-87: newMsg += msg.text for every text segment
ConcatText(segs) ==
  IF Len(segs) = 0 THEN EmptyStr
  ELSE (IF Head(segs).type = "text" THEN Head(segs).text ELSE EmptyStr) \o ConcatText(Tail(segs))

\* slip: the final message is replaced in the array of the context
HistoryAfterAssemble_inPlace(msgs, opts) ==
  IF ~opts.useVisionForPlanner /\ opts.useVision /\ Len(msgs) > 0
  THEN [msgs EXCEPT ![Len(msgs)] =
          HumanMessage(IF msgs[Len(msgs)].isArray
                       THEN ConcatText(msgs[Len(msgs)].segs)
                       ELSE msgs[Len(msgs)].content)]
  ELSE msgs

\* lines 72-93 write to the fresh array plannerMessages only (the spread of
\* line 74 copies the entries, line 92 assigns into the copy): the history
\* held by the context after them
HistoryAfterAssemble(msgs, opts) == msgs

\* lines 72-93: the message sequence handed to the LLM
AssemblePlannerMessages(msgs, opts) ==
  LET base == <<SystemMessage>> \o Slice1(msgs)
      lastStateMessage == base[Len(base)]
      newMsg == IF lastStateMessage.isArray
                THEN ConcatText(lastStateMessage.segs)
                ELSE lastStateMessage.content
  IN IF ~opts.useVisionForPlanner /\ opts.useVision
     THEN [base EXCEPT ![Len(base)] = HumanMessage(newMsg)]
     ELSE base


\* --------------------------------------------------------------- input sets
\* free-text contents of a plan: per field a distinct letter, so that a
\* field taken for another is visible; marked variants carry the markers
CleanTexts ==
  [observation |-> <<"o">>, challenges |-> <<"c">>, next_steps |-> <<"n">>,
   final_answer |-> <<"f">>, reasoning |-> <<"r">>]
MarkedTexts ==
  [observation |-> <<"<", "o", ">">>, challenges |-> <<"c", "<">>, next_steps |-> <<"<", "n">>,
   final_answer |-> <<"<", "f", ">", "f">>, reasoning |-> <<">", "r">>]
MixedTexts ==
  [observation |-> <<"o">>, challenges |-> EmptyStr, next_steps |-> <<"n", ">">>,
   final_answer |-> <<"<", ">">>, reasoning |-> <<"r">>]
PlanTexts == {CleanTexts, MarkedTexts, MixedTexts}

MkPlan(texts, done, web_task) ==
  [observation |-> texts.observation, challenges |-> texts.challenges, done |-> done,
   next_steps |-> texts.next_steps, final_answer |-> texts.final_answer,
   reasoning |-> texts.reasoning, web_task |-> web_task]

\* structured outputs the LLM boundary can return (already validated)
LLMOutputs == {MkPlan(t, d, w) : t \in PlanTexts, d \in BOOLEAN, w \in BOOLEAN}

\* errors the LLM boundary can raise while the signal has not fired
LLMErrors ==
  {MkError(k[1], k[2], ps) :
     k \in {<<"Error", <<"boom">> >>, <<"Error", EmptyStr>>,
            <<"string", <<"boom">> >>, <<"object", EmptyStr>>},
     ps \in SUBSET Preds}

\* raw values a JSON body can carry for done / web_task
RawDones ==
  {RawBool(TRUE), RawBool(FALSE), RawString(StrTrue), RawString(<<"T", "R", "U", "E">>),
   RawString(<<"F", "a", "l", "s", "e">>), RawString(<<"y", "e", "s">>), RawNumber, RawUndefined}
RawWebTasks == {RawBool(TRUE), RawString(StrFalse), RawString(<<"n", "o">>)}

MkRawObject(texts, done, web_task) ==
  [isObject |-> TRUE,
   fields |-> [f \in PlanFields |->
                 CASE f = "done" -> done
                   [] f = "web_task" -> web_task
                   [] OTHER -> RawString(texts[f])]]

\* JSON bodies the remote planning service can answer with
RemoteBodies ==
  {MkRawObject(t, d, w) : t \in PlanTexts, d \in RawDones, w \in RawWebTasks}
  \cup {[MkRawObject(CleanTexts, RawBool(TRUE), RawBool(TRUE)) EXCEPT !.fields["reasoning"] = RawUndefined],
        [MkRawObject(CleanTexts, RawBool(TRUE), RawBool(TRUE)) EXCEPT !.fields["next_steps"] = RawNumber],
        [isObject |-> FALSE, fields |-> [f \in PlanFields |-> RawUndefined]]}

Statuses == {200, 204, 404, 500}
\* response.ok
ResponseOk(status) == status >= 200 /\ status <= 299

\* configured endpoint bases
Endpoints == {EmptyStr, <<"h">>, <<"h", "/">>, <<"h", "/", "/">>}

PlannerConfigs ==
  {None} \cup
  {Some([useServerForFirstPlan |-> u, serverPlanEndpoint |-> e]) :
     u \in {None, Some(TRUE), Some(FALSE)},
     e \in {None} \cup {Some(x) : x \in Endpoints}}

\* messages of the context history
ContextSystemMessage == TextMessage("system", <<"C">>)
TailMessages ==
  {TextMessage("human", <<"s">>),
   TextMessage("ai", <<"a">>),
   ArrayMessage("human", <<TextSeg(<<"x">>), ImageSeg, TextSeg(<<"y">>)>>)}

RECURSIVE SeqsUpTo(_, _)
SeqsUpTo(S, n) ==
  IF n = 0 THEN {<<>>}
  ELSE LET shorter == SeqsUpTo(S, n - 1)
       IN shorter \cup {Append(q, x) : q \in shorter, x \in S}

Histories == {<<>>} \cup {<<ContextSystemMessage>> \o t : t \in SeqsUpTo(TailMessages, MaxTail)}

VisionOptions == [useVision : BOOLEAN, useVisionForPlanner : BOOLEAN]

\* -------------------------------------------------------------------- state
VARIABLES
  nSteps,          \* context.nSteps
  options,         \* context.options
  messages,        \* context.messageManager.getMessages()
  plannerConfig,   \* this.plannerConfig
  aborted,         \* context.controller.signal.aborted
  abortedAt,       \* the position of execute when the signal fired
  pc,              \* position of execute: idle, fetch, json, invoke, returned, thrown
  plannerMessages, \* the local plannerMessages once assembled
  events,          \* events handed to context.emitEvent, in order
  outcome,         \* the AgentOutput returned
  thrown,          \* the failure thrown to the caller
  remoteRequests,  \* number of fetch calls issued
  requestUrl,      \* URL of the fetch call
  serverError,     \* the error caught and logged at lines 105-107
  planOutput,      \* the plan executeWithServerPlan returned (line 193)
  serverPlan,      \* the JSON body that plan was parsed from (line 190)
  modelOutput,     \* the local modelOutput once a planning call has returned (line 96)
  caught,          \* the error that reached the catch block of line 144
  llmCalls,        \* number of this.invoke calls issued
  llmInput,        \* argument of the this.invoke call
  inflight,        \* outbound calls awaiting completion
  schemaInput,     \* the value handed to plannerOutputSchema.parse
  schemaResult,    \* what that parse gave: pending, ok with the value, or error
  providers,       \* ids of the providers held by llmProviderStore
  agentModels,     \* per agent the provider of its model in agentModelStore
  initPc,          \* per call of ensureDefaultConfiguration its position
  snapshot,        \* per call the provider ids getAllProviders gave it
  writes           \* per call the number of store writes it issued

ctxVars == <<nSteps, options, messages, plannerConfig>>
plannerVars == <<nSteps, options, messages, plannerConfig, aborted, abortedAt, pc,
                 plannerMessages, events, outcome, thrown, remoteRequests, requestUrl,
                 serverError, planOutput, serverPlan, modelOutput, caught, llmCalls, llmInput,
                 inflight>>
schemaVars == <<schemaInput, schemaResult>>
initVars == <<providers, agentModels, initPc, snapshot, writes>>
\* the state outside of the planner agent
auxVars == <<schemaVars, initVars>>
vars == <<plannerVars, auxVars>>

Calls == 1..MaxCalls
Agents == {"planner", "navigator"}

\* no call of ensureDefaultConfiguration is under way
InitServiceIdle ==
  /\ providers = {}
  /\ agentModels = [a \in Agents |-> None]
  /\ initPc = [p \in Calls |-> "off"]
  /\ snapshot = [p \in Calls |-> None]
  /\ writes = [p \in Calls |-> 0]

\* no parse of plannerOutputSchema on its own is under way
SchemaIdle ==
  /\ schemaInput = [isObject |-> FALSE, fields |-> [f \in PlanFields |-> RawUndefined]]
  /\ schemaResult = [status |-> "idle", value |-> None]

Init ==
  /\ nSteps \in 0..MaxSteps
  /\ options \in VisionOptions
  /\ messages \in Histories
  /\ plannerConfig \in PlannerConfigs
  /\ aborted = FALSE
  /\ abortedAt = "never"
  /\ pc = "idle"
  /\ plannerMessages = <<>>
  /\ events = <<>>
  /\ outcome = None
  /\ thrown = None
  /\ remoteRequests = 0
  /\ requestUrl = None
  /\ serverError = None
  /\ planOutput = None
  /\ serverPlan = None
  /\ modelOutput = None
  /\ caught = None
  /\ llmCalls = 0
  /\ llmInput = None
  /\ inflight = {}
  /\ SchemaIdle
  /\ InitServiceIdle


\* ------------------------------------------------- pure parts of execute()
\* (a definition named X_y is X with the one slip y; the claims are
\* checked to tell X from it)

\* line 69
StartEvents(evs) == Append(evs, Event(STEP_START, <<"Planning...">>))

\* this.plannerConfig?.useServerForFirstPlan is truthy
UseServerForFirstPlan ==
  /\ IsSome(plannerConfig)
  /\ IsSome(Get(plannerConfig).useServerForFirstPlan)
  /\ Get(Get(plannerConfig).useServerForFirstPlan)

\* this.plannerConfig?.serverPlanEndpoint is truthy
EndpointConfigured ==
  /\ IsSome(plannerConfig)
  /\ IsSome(Get(plannerConfig).serverPlanEndpoint)
  /\ TruthyStr(Get(Get(plannerConfig).serverPlanEndpoint))

\* slip: the step index is not looked at
UseServerPlan_anyStep == UseServerForFirstPlan /\ EndpointConfigured

\* lines 97-101: the condition selecting server-based planning
UseServerPlan == nSteps = 0 /\ UseServerForFirstPlan /\ EndpointConfigured

RECURSIVE TrimSlash_all(_)
\* slip: every trailing slash is removed
TrimSlash_all(endpoint) ==
  IF Len(endpoint) > 0 /\ endpoint[Len(endpoint)] = "/"
  THEN TrimSlash_all(SubSeq(endpoint, 1, Len(endpoint) - 1))
  ELSE endpoint

\* endpoint.replace(/\/$/, '')
TrimSlash(endpoint) ==
  IF Len(endpoint) > 0 /\ endpoint[Len(endpoint)] = "/"
  THEN SubSeq(endpoint, 1, Len(endpoint) - 1)
  ELSE endpoint

\* line 176
ApiUrl(endpoint) == TrimSlash(endpoint) \o <<"/planner/ReplyMessage/Facebook">>

\* slip: reasoning is not cleaned
CleanPlan_rawReasoning(output) ==
  [output EXCEPT
     !.observation  = filterExternalContent(output.observation),
     !.challenges   = filterExternalContent(output.challenges),
     !.final_answer = filterExternalContent(output.final_answer),
     !.next_steps   = filterExternalContent(output.next_steps)]

\* lines 120-133: cleanedPlan
CleanPlan(output) ==
  [output EXCEPT
     !.observation  = filterExternalContent(output.observation),
     !.challenges   = filterExternalContent(output.challenges),
     !.reasoning    = filterExternalContent(output.reasoning),
     !.final_answer = filterExternalContent(output.final_answer),
     !.next_steps   = filterExternalContent(output.next_steps)]

\* slip: the two branches are exchanged
EventMessage_exchanged(cleanedPlan) ==
  IF cleanedPlan.done THEN cleanedPlan.next_steps ELSE cleanedPlan.final_answer

\* line 136
EventMessage(cleanedPlan) ==
  IF cleanedPlan.done THEN cleanedPlan.final_answer ELSE cleanedPlan.next_steps

\* line 137
StepOkEvents(evs, cleanedPlan) == Append(evs, Event(STEP_OK, EventMessage(cleanedPlan)))

\* lines 140-143
ResultOutcome(cleanedPlan) == [id |-> "planner", result |-> Some(cleanedPlan), error |-> None]

\* slip: no branch for aborted requests
CatchFailure_noAbort(error) ==
  LET errorMessage == ErrorMessage(error)
  IN IF isAuthenticationError(error)
     THEN Some([type |-> "ChatModelAuthError", message |-> errorMessage, cause |-> Some(error)])
     ELSE IF isBadRequestError(error)
     THEN Some([type |-> "ChatModelBadRequestError", message |-> errorMessage, cause |-> Some(error)])
     ELSE IF isForbiddenError(error)
     THEN Some([type |-> "ChatModelForbiddenError", message |-> LLM_FORBIDDEN_ERROR_MESSAGE,
                cause |-> Some(error)])
     ELSE None

\* slip: the aborted check comes first
CatchFailure_abortFirst(error) ==
  LET errorMessage == ErrorMessage(error)
  IN IF isAbortedError(error)
     THEN Some([type |-> "RequestCancelledError", message |-> errorMessage, cause |-> None])
     ELSE IF isAuthenticationError(error)
     THEN Some([type |-> "ChatModelAuthError", message |-> errorMessage, cause |-> Some(error)])
     ELSE IF isBadRequestError(error)
     THEN Some([type |-> "ChatModelBadRequestError", message |-> errorMessage, cause |-> Some(error)])
     ELSE IF isForbiddenError(error)
     THEN Some([type |-> "ChatModelForbiddenError", message |-> LLM_FORBIDDEN_ERROR_MESSAGE,
                cause |-> Some(error)])
     ELSE None

\* slip: forbidden errors fall through to the generic handling
CatchFailure_forbiddenReported(error) ==
  LET errorMessage == ErrorMessage(error)
  IN IF isAuthenticationError(error)
     THEN Some([type |-> "ChatModelAuthError", message |-> errorMessage, cause |-> Some(error)])
     ELSE IF isBadRequestError(error)
     THEN Some([type |-> "ChatModelBadRequestError", message |-> errorMessage, cause |-> Some(error)])
     ELSE IF isAbortedError(error)
     THEN Some([type |-> "RequestCancelledError", message |-> errorMessage, cause |-> None])
     ELSE None

\* slip: the forbidden failure carries the provider message
CatchFailure_forbiddenLeaks(error) ==
  LET errorMessage == ErrorMessage(error)
  IN IF isAuthenticationError(error)
     THEN Some([type |-> "ChatModelAuthError", message |-> errorMessage, cause |-> Some(error)])
     ELSE IF isBadRequestError(error)
     THEN Some([type |-> "ChatModelBadRequestError", message |-> errorMessage, cause |-> Some(error)])
     ELSE IF isAbortedError(error)
     THEN Some([type |-> "RequestCancelledError", message |-> errorMessage, cause |-> None])
     ELSE IF isForbiddenError(error)
     THEN Some([type |-> "ChatModelForbiddenError", message |-> errorMessage, cause |-> Some(error)])
     ELSE None

\* lines 147-155: the typed failure thrown for a classified error, None
\* when the error falls through to the generic handling
CatchFailure(error) ==
  LET errorMessage == ErrorMessage(error)
  IN IF isAuthenticationError(error)
     THEN Some([type |-> "ChatModelAuthError", message |-> errorMessage, cause |-> Some(error)])
     ELSE IF isBadRequestError(error)
     THEN Some([type |-> "ChatModelBadRequestError", message |-> errorMessage, cause |-> Some(error)])
     ELSE IF isAbortedError(error)
     THEN Some([type |-> "RequestCancelledError", message |-> errorMessage, cause |-> None])
     ELSE IF isForbiddenError(error)
     THEN Some([type |-> "ChatModelForbiddenError", message |-> LLM_FORBIDDEN_ERROR_MESSAGE,
                cause |-> Some(error)])
     ELSE None

\* slip: the step-fail event is not emitted
StepFailEvents_silent(evs, errorMessage) == evs

\* line 158
StepFailEvents(evs, errorMessage) ==
  Append(evs, Event(STEP_FAIL, <<"Planning failed: ">> \o errorMessage))

\* slip: the error message is not put into the outcome
ErrorOutcome_noError(errorMessage) == [id |-> "planner", result |-> None, error |-> None]

\* lines 159-162
ErrorOutcome(errorMessage) == [id |-> "planner", result |-> None, error |-> Some(errorMessage)]

\* slip: no catch clause around executeWithServerPlan
ServerErrorCaught_never(error) == FALSE

\* line 105: the catch clause around executeWithServerPlan catches every error
ServerErrorCaught(error) == TRUE

\* ------------------------------------------------------------ control flow
\* lines 144-163: the catch block of execute
Catch(error, evs) ==
  LET failure == CatchFailure(error)
  IN IF IsSome(failure)
     THEN /\ pc' = "thrown"
          /\ caught' = Some(error)
          /\ thrown' = failure
          /\ events' = evs
          /\ UNCHANGED outcome
     ELSE /\ pc' = "returned"
          /\ caught' = Some(error)
          /\ events' = StepFailEvents(evs, ErrorMessage(error))
          /\ outcome' = Some(ErrorOutcome(ErrorMessage(error)))
          /\ UNCHANGED thrown

\* lines 115-143: what follows the planning call that produced modelOutput
Finish(output, evs) ==
  IF IsNone(output)
  THEN /\ modelOutput' = output
       /\ Catch(OutputError, evs)
  ELSE LET cleanedPlan == CleanPlan(Get(output))
       IN /\ modelOutput' = output
          /\ pc' = "returned"
          /\ events' = StepOkEvents(evs, cleanedPlan)
          /\ outcome' = Some(ResultOutcome(cleanedPlan))
          /\ UNCHANGED <<thrown, caught>>

\* slip: the LLM call is issued while the remote request is still pending
InvokeIssued_fetchPending(msgs, others) ==
  /\ llmCalls' = llmCalls + 1
  /\ llmInput' = Some(msgs)
  /\ inflight' = inflight \cup {"invoke"}
  /\ pc' = "invoke"

\* this.invoke(msgs) is called and execute suspends on it
InvokeIssued(msgs, others) ==
  /\ llmCalls' = llmCalls + 1
  /\ llmInput' = Some(msgs)
  /\ inflight' = others \cup {"invoke"}
  /\ pc' = "invoke"

\* lines 105-110: executeWithServerPlan failed with error
ServerPlanFailed(error, msgs, evs) ==
  IF ServerErrorCaught(error)
  THEN /\ serverError' = Some(error)
       /\ InvokeIssued(msgs, inflight \ {"fetch"})
       /\ events' = evs
       /\ UNCHANGED <<outcome, thrown, caught, modelOutput>>
  ELSE /\ Catch(error, evs)
       /\ inflight' = inflight \ {"fetch"}
       /\ UNCHANGED <<serverError, llmCalls, llmInput, modelOutput>>

\* lines 67-113 and 169-184: execute up to its first suspension point
ExecuteStart ==
  /\ UNCHANGED auxVars
  /\ pc = "idle"
  /\ LET msgs == AssemblePlannerMessages(messages, options)
     IN /\ plannerMessages' = msgs
        /\ IF UseServerPlan
           THEN IF ~EndpointConfigured
                THEN /\ ServerPlanFailed(EndpointError, msgs, StartEvents(events))
                     /\ UNCHANGED <<remoteRequests, requestUrl>>
                ELSE /\ events' = StartEvents(events)
                     /\ remoteRequests' = remoteRequests + 1
                     /\ requestUrl' = Some(ApiUrl(Get(Get(plannerConfig).serverPlanEndpoint)))
                     /\ inflight' = inflight \cup {"fetch"}
                     /\ pc' = "fetch"
                     /\ UNCHANGED <<serverError, llmCalls, llmInput, outcome, thrown, caught,
                                    modelOutput>>
           ELSE /\ events' = StartEvents(events)
                /\ InvokeIssued(msgs, inflight)
                /\ UNCHANGED <<serverError, remoteRequests, requestUrl, outcome, thrown, caught,
                               modelOutput>>
  /\ messages' = HistoryAfterAssemble(messages, options)
  /\ UNCHANGED <<nSteps, options, plannerConfig, aborted, abortedAt, planOutput, serverPlan>>

\* The fetch and the LLM call are both bound to context.controller.signal
\* (line 183; spec section 5 for the LLM boundary): once the signal has fired
\* a pending call can only fail, with an abort error, so the resolving
\* actions below are guarded by ~aborted.

\* the owner of the context fires the cancellation signal
Abort ==
  /\ UNCHANGED auxVars
  /\ ~aborted
  /\ pc \in {"idle", "fetch", "json", "invoke"}
  /\ aborted' = TRUE
  /\ abortedAt' = pc
  /\ UNCHANGED <<ctxVars, pc, plannerMessages, events, outcome, thrown, remoteRequests,
                 requestUrl, serverError, planOutput, serverPlan, modelOutput, caught,
                 llmCalls, llmInput, inflight>>

\* line 181: the fetch promise rejects (network failure, or the signal fired)
FetchRejects ==
  /\ UNCHANGED auxVars
  /\ pc = "fetch"
  /\ \E error \in (IF aborted THEN {AbortError} ELSE {NetworkError}) :
       ServerPlanFailed(error, plannerMessages, events)
  /\ UNCHANGED <<ctxVars, aborted, abortedAt, plannerMessages, remoteRequests, requestUrl,
                 planOutput, serverPlan>>

\* lines 181-190: the fetch promise resolves with a response
FetchResolves ==
  /\ UNCHANGED auxVars
  /\ pc = "fetch"
  /\ ~aborted
  /\ \E status \in Statuses :
       IF ~ResponseOk(status)
       THEN ServerPlanFailed(StatusError(status), plannerMessages, events)
       ELSE /\ pc' = "json"
            /\ UNCHANGED <<events, outcome, thrown, caught, serverError, llmCalls, llmInput,
                           inflight, modelOutput>>
  /\ UNCHANGED <<ctxVars, aborted, abortedAt, plannerMessages, remoteRequests, requestUrl,
                 planOutput, serverPlan>>

\* line 190: reading the body fails (not JSON, or the signal fired)
JsonRejects ==
  /\ UNCHANGED auxVars
  /\ pc = "json"
  /\ \E error \in (IF aborted THEN {AbortError} ELSE {SyntaxError}) :
       ServerPlanFailed(error, plannerMessages, events)
  /\ UNCHANGED <<ctxVars, aborted, abortedAt, plannerMessages, remoteRequests, requestUrl,
                 planOutput, serverPlan>>

\* lines 190-197 and 115-143: the body arrives and is validated
JsonResolves ==
  /\ UNCHANGED auxVars
  /\ pc = "json"
  /\ ~aborted
  /\ \E body \in RemoteBodies :
       IF SchemaAccepts(body)
       THEN /\ serverPlan' = Some(body)
            /\ planOutput' = Some(SchemaParse(body))
            /\ Finish(Some(SchemaParse(body)), events)
            /\ inflight' = inflight \ {"fetch"}
            /\ UNCHANGED <<serverError, llmCalls, llmInput>>
       ELSE /\ ServerPlanFailed(ValidationError, plannerMessages, events)
            /\ UNCHANGED <<planOutput, serverPlan>>
  /\ UNCHANGED <<ctxVars, aborted, abortedAt, plannerMessages, remoteRequests, requestUrl>>

\* lines 109/112 and 115-143: this.invoke returns a structured output or null
InvokeReturns ==
  /\ UNCHANGED auxVars
  /\ pc = "invoke"
  /\ ~aborted
  /\ \E output \in {None} \cup {Some(o) : o \in LLMOutputs} : Finish(output, events)
  /\ inflight' = inflight \ {"invoke"}
  /\ UNCHANGED <<ctxVars, aborted, abortedAt, plannerMessages, remoteRequests, requestUrl,
                 serverError, planOutput, serverPlan, llmCalls, llmInput>>

\* lines 109/112 and 144-163: this.invoke raises
InvokeThrows ==
  /\ UNCHANGED auxVars
  /\ pc = "invoke"
  /\ \E error \in (IF aborted THEN {AbortError} ELSE LLMErrors) : Catch(error, events)
  /\ UNCHANGED modelOutput
  /\ inflight' = inflight \ {"invoke"}
  /\ UNCHANGED <<ctxVars, aborted, abortedAt, plannerMessages, remoteRequests, requestUrl,
                 serverError, planOutput, serverPlan, llmCalls, llmInput>>

Next ==
  \/ ExecuteStart
  \/ Abort
  \/ FetchRejects
  \/ FetchResolves
  \/ JsonRejects
  \/ JsonResolves
  \/ InvokeReturns
  \/ InvokeThrows

Spec == Init /\ [][Next]_vars

TypeOK ==
  /\ pc \in {"idle", "fetch", "json", "invoke", "returned", "thrown"}
  /\ aborted \in BOOLEAN
  /\ remoteRequests \in 0..2
  /\ llmCalls \in 0..2
  /\ inflight \subseteq {"fetch", "invoke"}


\* ------------------------------------------------------------------ claims
Terminated == pc \in {"returned", "thrown"}
CountEvents(st) == Cardinality({i \in DOMAIN events : events[i].state = st})
TerminalCount == CountEvents(STEP_OK) + CountEvents(STEP_FAIL)
\* the remote path of this invocation has failed and execute fell back
RemoteFailed == IsSome(serverError)
\* s ends with t
EndsWith(s, t) == Len(s) >= Len(t) /\ SubSeq(s, Len(s) - Len(t) + 1, Len(s)) = t

\* C1 (as stated): whichever way execute ends (result, error or thrown typed
\* failure), its events are step-start followed by exactly one terminal event.
C1_AlwaysOneTerminal ==
  Terminated =>
    /\ Len(events) = 2
    /\ events[1].state = STEP_START
    /\ events[2].state \in {STEP_OK, STEP_FAIL}

\* C1 (amended): step-start is always the first event; an invocation that
\* returns an outcome emits exactly one terminal event after it (step-ok with
\* a result, step-fail with an error); an invocation that throws a typed
\* failure emits no terminal event; never two terminal events.
C1_EventOrder ==
  /\ pc = "idle" => events = <<>>
  /\ pc # "idle" => Len(events) >= 1 /\ events[1].state = STEP_START
  /\ CountEvents(STEP_START) <= 1
  /\ TerminalCount <= 1
  /\ pc \in {"fetch", "json", "invoke"} => TerminalCount = 0
  /\ pc = "thrown" => TerminalCount = 0
  /\ pc = "returned" =>
       /\ Len(events) = 2
       /\ events[2].state = (IF IsSome(Get(outcome).result) THEN STEP_OK ELSE STEP_FAIL)

C1_Witness ==
  /\ pc = "returned"
  /\ RemoteFailed
  /\ Len(events) = 2
  /\ events[2].state = STEP_FAIL

\* C2: every returned step outcome has exactly one of result and error
\* populated, and every return hands back an outcome.
C2_ExactlyOneOfResultError ==
  /\ pc = "returned" => IsSome(outcome)
  /\ IsSome(outcome) => (IsSome(Get(outcome).result) # IsSome(Get(outcome).error))

C2_Witness ==
  /\ pc = "returned"
  /\ IsSome(outcome)
  /\ IsSome(Get(outcome).error)
  /\ Get(Get(outcome).error) = EmptyStr

\* C3 (as stated): after a failed remote path the invocation makes exactly
\* one LLM call, has one step-start and ends with exactly one terminal event.
C3_FallbackOneTerminal ==
  (Terminated /\ RemoteFailed) =>
    /\ llmCalls = 1
    /\ CountEvents(STEP_START) = 1
    /\ TerminalCount = 1

\* C3 (amended): when remote planning is selected and the remote path fails
\* in any way, the same invocation makes exactly one LLM call and no further
\* remote request, has exactly one step-start, and ends with exactly one
\* terminal event if it returns an outcome and with none if the fallback
\* raises a typed failure; the only end without an LLM call is a remote
\* success.
C3_FallbackOnce ==
  /\ RemoteFailed =>
       /\ UseServerPlan
       /\ pc \in {"invoke", "returned", "thrown"}
       /\ llmCalls = 1
       /\ remoteRequests <= 1
       /\ CountEvents(STEP_START) = 1
       /\ pc = "invoke" => TerminalCount = 0
       /\ pc = "returned" => TerminalCount = 1
       /\ pc = "thrown" => TerminalCount = 0
  /\ (Terminated /\ remoteRequests = 1 /\ llmCalls = 0) =>
       /\ pc = "returned"
       /\ IsSome(Get(outcome).result)

C3_Witness ==
  /\ pc = "returned"
  /\ serverError = Some(ValidationError)
  /\ llmCalls = 1
  /\ IsSome(Get(outcome).result)

\* C4: if the cancellation signal fires while the remote fetch or the LLM
\* invocation is in flight, the step ends by throwing RequestCancelledError,
\* emits no step-fail event and returns no outcome.
C4_CancelledInFlight ==
  (Terminated /\ abortedAt \in {"fetch", "json", "invoke"}) =>
    /\ pc = "thrown"
    /\ Get(thrown).type = "RequestCancelledError"
    /\ CountEvents(STEP_FAIL) = 0
    /\ outcome = None

C4_Witness ==
  /\ pc = "thrown"
  /\ abortedAt = "invoke"
  /\ serverError = Some(NetworkError)
  /\ Get(thrown).type = "RequestCancelledError"

\* C5: when the signal fires while the remote planning request is in flight,
\* execute issues no LLM call in that step.
C5_NoLLMCallAfterRemoteAbort ==
  abortedAt \in {"fetch", "json"} => llmCalls = 0

\* C6: the failure reaching the step boundary is classified by the first
\* satisfied predicate in the order authentication, bad-request, cancelled,
\* forbidden; it is unclassified only when no predicate is satisfied.
PriorityOrder == <<"auth", "badRequest", "aborted", "forbidden">>
FailureTypeOf(pred) ==
  CASE pred = "auth" -> "ChatModelAuthError"
    [] pred = "badRequest" -> "ChatModelBadRequestError"
    [] pred = "aborted" -> "RequestCancelledError"
    [] pred = "forbidden" -> "ChatModelForbiddenError"
FirstSatisfied(preds) ==
  PriorityOrder[CHOOSE i \in 1..Len(PriorityOrder) :
                  /\ PriorityOrder[i] \in preds
                  /\ \A j \in 1..(i - 1) : PriorityOrder[j] \notin preds]

C6_FirstMatchWins ==
  IsSome(caught) =>
    IF Get(caught).preds = {}
    THEN pc = "returned" /\ thrown = None
    ELSE pc = "thrown" /\ Get(thrown).type = FailureTypeOf(FirstSatisfied(Get(caught).preds))

C6_Witness ==
  /\ IsSome(caught)
  /\ Get(caught).preds = {"badRequest", "aborted", "forbidden"}
  /\ pc = "thrown"
  /\ Get(thrown).type = "ChatModelBadRequestError"

\* C7: a failure satisfying a classification predicate is propagated as a
\* typed failure with no step-fail event and no outcome; any other failure
\* emits one step-fail event carrying the error message and returns an
\* outcome with error and without result; also after a failed remote plan.
C7_TypedOrReported ==
  IsSome(caught) =>
    IF Get(caught).preds # {}
    THEN /\ pc = "thrown"
         /\ Get(thrown).type \in {FailureTypeOf(p) : p \in Get(caught).preds}
         /\ CountEvents(STEP_FAIL) = 0
         /\ outcome = None
    ELSE /\ pc = "returned"
         /\ thrown = None
         /\ CountEvents(STEP_FAIL) = 1
         /\ events[Len(events)].state = STEP_FAIL
         /\ EndsWith(events[Len(events)].data, ErrorMessage(Get(caught)))
         /\ Get(outcome).error = Some(ErrorMessage(Get(caught)))
         /\ Get(outcome).result = None

C7_Witness ==
  /\ serverError = Some(StatusError(500))
  /\ pc = "thrown"
  /\ Get(thrown).type = "ChatModelAuthError"
  /\ CountEvents(STEP_FAIL) = 0

\* C8: a Forbidden failure carries the fixed message whatever the provider
\* message was; Authentication, BadRequest and Cancelled failures and the
\* error of an unclassified failure carry the original message unchanged.
C8_Messages ==
  (IsSome(caught) /\ Get(caught).kind \in {"Error", "string"}) =>
    /\ (pc = "thrown" /\ Get(thrown).type = "ChatModelForbiddenError") =>
         Get(thrown).message = LLM_FORBIDDEN_ERROR_MESSAGE
    /\ (pc = "thrown" /\ Get(thrown).type # "ChatModelForbiddenError") =>
         Get(thrown).message = Get(caught).message
    /\ pc = "returned" => Get(outcome).error = Some(Get(caught).message)

C8_Witness ==
  /\ pc = "thrown"
  /\ Get(thrown).type = "ChatModelForbiddenError"
  /\ Get(caught).message = <<"boom">>
  /\ Get(thrown).message = LLM_FORBIDDEN_ERROR_MESSAGE

\* C9: remote planning is attempted exactly when the step index is 0,
\* useServerForFirstPlan is enabled and an endpoint is configured; otherwise
\* the LLM is invoked directly and no remote request is made; a schema-valid
\* remote plan is returned sanitized with a step-ok event and no LLM call.
RemoteSelected ==
  /\ nSteps = 0
  /\ plannerConfig # None
  /\ Get(plannerConfig).useServerForFirstPlan = Some(TRUE)
  /\ Get(plannerConfig).serverPlanEndpoint \notin {None, Some(EmptyStr)}

C9_SourceSelection ==
  /\ pc # "idle" =>
       /\ (remoteRequests >= 1) <=> RemoteSelected
       /\ ~RemoteSelected => (llmCalls = 1 /\ remoteRequests = 0 /\ serverError = None)
  /\ IsSome(planOutput) =>
       /\ pc = "returned"
       /\ llmCalls = 0
       /\ CountEvents(STEP_OK) = 1
       /\ IsSome(Get(outcome).result)
       /\ \A f \in TextFields :
            Get(Get(outcome).result)[f] = filterExternalContent(Get(planOutput)[f])
       /\ \A f \in BoolFields : Get(Get(outcome).result)[f] = Get(planOutput)[f]

C9_Witness ==
  /\ IsSome(planOutput)
  /\ Get(planOutput).final_answer = MarkedTexts.final_answer
  /\ pc = "returned"
  /\ llmCalls = 0
  /\ Get(Get(outcome).result).final_answer = <<"f", "f">>

\* C10: at most one outbound call is in flight at any time; a step makes at
\* most one remote request and at most one LLM call; a failed remote path is
\* followed by exactly one LLM call.
C10_OneCallAtATime ==
  /\ Cardinality(inflight) <= 1
  /\ remoteRequests <= 1
  /\ llmCalls <= 1
  /\ RemoteFailed => (remoteRequests = 1 /\ llmCalls = 1)
  /\ Terminated => inflight = {}

C10_Witness ==
  /\ pc = "invoke"
  /\ RemoteFailed
  /\ inflight = {"invoke"}
  /\ remoteRequests = 1
  /\ llmCalls = 1


\* the invocation returned a result
Succeeded == pc = "returned" /\ IsSome(Get(outcome).result)

\* C11: a successful step emits exactly one step-ok event; its message is
\* the sanitized final_answer when the validated output's done is true and
\* the sanitized next_steps when it is false, done being taken after the
\* coercion of the strings "true" / "false" of a remote body.
C11_StepOkMessage ==
  /\ Succeeded =>
       /\ CountEvents(STEP_OK) = 1
       /\ events[Len(events)].state = STEP_OK
       /\ IsSome(modelOutput)
       /\ Get(modelOutput).done =>
            events[Len(events)].data = filterExternalContent(Get(modelOutput).final_answer)
       /\ ~Get(modelOutput).done =>
            events[Len(events)].data = filterExternalContent(Get(modelOutput).next_steps)
  /\ (Succeeded /\ IsSome(serverPlan) /\ Get(serverPlan).fields["done"].t = "string") =>
       LET raw == Get(serverPlan).fields
       IN /\ toLowerCase(raw["done"].s) = StrTrue =>
               events[Len(events)].data = filterExternalContent(raw["final_answer"].s)
          /\ toLowerCase(raw["done"].s) = StrFalse =>
               events[Len(events)].data = filterExternalContent(raw["next_steps"].s)
  /\ ~Succeeded => CountEvents(STEP_OK) = 0

C11_Witness ==
  /\ Succeeded
  /\ IsSome(serverPlan)
  /\ Get(serverPlan).fields["done"] = RawString(<<"T", "R", "U", "E">>)
  /\ Get(serverPlan).fields["final_answer"] = RawString(MarkedTexts.final_answer)
  /\ events[Len(events)] = Event(STEP_OK, <<"f", "f">>)

\* C12: if the planning call (direct, or the fallback after a failed remote
\* plan) completes without a structured output, no step-ok event is emitted,
\* one step-fail event is emitted and the outcome carries the message
\* "Failed to validate planner output" as error and no result.
C12_NoOutputFails ==
  /\ (Terminated /\ llmCalls = 1 /\ modelOutput = None /\ ~aborted /\
        (IsNone(caught) \/ Get(caught) \notin LLMErrors)) =>
       /\ pc = "returned"
       /\ CountEvents(STEP_OK) = 0
       /\ CountEvents(STEP_FAIL) = 1
       /\ EndsWith(events[Len(events)].data, <<"Failed to validate planner output">>)
       /\ Get(outcome).error = Some(<<"Failed to validate planner output">>)
       /\ Get(outcome).result = None
  /\ Succeeded => IsSome(modelOutput)

C12_Witness ==
  /\ pc = "returned"
  /\ RemoteFailed
  /\ modelOutput = None
  /\ Get(outcome).error = Some(<<"Failed to validate planner output">>)
  /\ CountEvents(STEP_FAIL) = 1


\* ------------------------------------------- plannerOutputSchema on its own
\* no execute() is under way
PlannerOff ==
  /\ nSteps = 0
  /\ options = [useVision |-> FALSE, useVisionForPlanner |-> FALSE]
  /\ messages = <<>>
  /\ plannerConfig = None
  /\ aborted = FALSE
  /\ abortedAt = "never"
  /\ pc = "off"
  /\ plannerMessages = <<>>
  /\ events = <<>>
  /\ outcome = None
  /\ thrown = None
  /\ remoteRequests = 0
  /\ requestUrl = None
  /\ serverError = None
  /\ planOutput = None
  /\ serverPlan = None
  /\ modelOutput = None
  /\ caught = None
  /\ llmCalls = 0
  /\ llmInput = None
  /\ inflight = {}

UpperChar(c) ==
  CASE c = "t" -> "T"
    [] c = "r" -> "R"
    [] c = "u" -> "U"
    [] c = "e" -> "E"
    [] c = "f" -> "F"
    [] c = "a" -> "A"
    [] c = "l" -> "L"
    [] c = "s" -> "S"
    [] OTHER -> c

\* every spelling of s in upper and lower case letters
CaseVariants(s) ==
  {v \in [1..Len(s) -> {"t", "r", "u", "e", "f", "a", "l", "s", "T", "R", "U", "E", "F", "A", "L", "S"}] :
     \A i \in 1..Len(s) : v[i] \in {s[i], UpperChar(s[i])}}

\* strings that are no spelling of true or false
OtherStrings ==
  {EmptyStr, <<"y", "e", "s">>, <<"n", "o">>, <<"1">>, <<"0">>, <<"t", "r", "u">>,
   <<"t", "r", "u", "e", "e">>, <<" ", "t", "r", "u", "e">>, <<"f", "a", "l", "s", "e", " ">>,
   <<"t">>, <<"f">>, <<"o", "n">>, <<"n", "u", "l", "l">>}

SchemaDones ==
  {RawBool(TRUE), RawBool(FALSE), RawNumber, RawUndefined}
  \cup {RawString(x) : x \in CaseVariants(StrTrue) \cup CaseVariants(StrFalse) \cup OtherStrings}

SchemaWebTasks ==
  {RawBool(TRUE), RawBool(FALSE), RawUndefined, RawNumber, RawString(<<"T", "r", "u", "e">>),
   RawString(<<"F", "A", "L", "S", "E">>), RawString(<<"n", "o">>), RawString(EmptyStr)}

SchemaTexts ==
  {[f \in TextFields |-> RawString(CleanTexts[f])],
   [f \in TextFields |-> RawString(EmptyStr)],
   [f \in TextFields |-> IF f = "observation" THEN RawUndefined ELSE RawString(MarkedTexts[f])],
   [f \in TextFields |-> IF f = "final_answer" THEN RawNumber ELSE RawString(CleanTexts[f])]}

SchemaInputs ==
  {[isObject |-> TRUE,
    fields |-> [f \in PlanFields |->
                  CASE f = "done" -> d
                    [] f = "web_task" -> w
                    [] OTHER -> t[f]]] :
     d \in SchemaDones, w \in SchemaWebTasks, t \in SchemaTexts}
  \cup {[isObject |-> FALSE, fields |-> [f \in PlanFields |-> RawUndefined]]}

InitSchema ==
  /\ PlannerOff
  /\ schemaInput \in SchemaInputs
  /\ schemaResult = [status |-> "pending", value |-> None]
  /\ InitServiceIdle

\* plannerOutputSchema.parse(schemaInput)
ParseInput ==
  /\ schemaResult.status = "pending"
  /\ schemaResult' =
       IF SchemaAccepts(schemaInput)
       THEN [status |-> "ok", value |-> Some(SchemaParse(schemaInput))]
       ELSE [status |-> "error", value |-> None]
  /\ UNCHANGED <<plannerVars, schemaInput, initVars>>

NextSchema == ParseInput

SpecSchema == InitSchema /\ [][NextSchema]_vars

\* C13: for done and web_task the schema keeps a literal boolean, coerces a
\* string spelling true or false in any letter case to that boolean, and
\* fails on every other string; a missing or invalid field never gives a
\* valid PlannerOutput (nothing is defaulted).
SpellsTrue(v)  == v.t = "string" /\ v.s \in CaseVariants(StrTrue)
SpellsFalse(v) == v.t = "string" /\ v.s \in CaseVariants(StrFalse)
BoolLike(v) == v.t = "boolean" \/ SpellsTrue(v) \/ SpellsFalse(v)

C13_BooleanCoercion ==
  schemaResult.status \in {"ok", "error"} =>
    LET raw == schemaInput.fields
    IN /\ schemaResult.status = "ok" <=>
            /\ schemaInput.isObject
            /\ \A f \in TextFields : raw[f].t = "string"
            /\ \A f \in BoolFields : BoolLike(raw[f])
       /\ schemaResult.status = "ok" =>
            /\ \A f \in BoolFields :
                 /\ raw[f].t = "boolean" => Get(schemaResult.value)[f] = raw[f].b
                 /\ SpellsTrue(raw[f]) => Get(schemaResult.value)[f] = TRUE
                 /\ SpellsFalse(raw[f]) => Get(schemaResult.value)[f] = FALSE
            /\ \A f \in TextFields : Get(schemaResult.value)[f] = raw[f].s
       /\ schemaResult.status = "error" => schemaResult.value = None

C13_Witness ==
  /\ schemaResult.status = "ok"
  /\ schemaInput.fields["done"] = RawString(<<"T", "R", "U", "E">>)
  /\ schemaInput.fields["web_task"] = RawString(<<"F", "A", "L", "S", "E">>)
  /\ Get(schemaResult.value).done = TRUE
  /\ Get(schemaResult.value).web_task = FALSE


\* C14: in every returned result each of the five free-text fields is the
\* sanitizer applied to the same field of the validated output, whether it
\* came from the remote service or from the LLM, and done and web_task are
\* those of the validated output.
C14_ResultIsSanitizedOutput ==
  Succeeded =>
    /\ IsSome(modelOutput)
    /\ IsSome(planOutput) => modelOutput = planOutput
    /\ DOMAIN Get(Get(outcome).result) = PlanFields
    /\ \A f \in TextFields :
         Get(Get(outcome).result)[f] = filterExternalContent(Get(modelOutput)[f])
    /\ \A f \in BoolFields : Get(Get(outcome).result)[f] = Get(modelOutput)[f]

C14_Witness ==
  /\ Succeeded
  /\ llmCalls = 1
  /\ Get(modelOutput).reasoning = MarkedTexts.reasoning
  /\ Get(Get(outcome).result).reasoning = <<"r">>
  /\ Get(Get(outcome).result).web_task = TRUE


\* image stripping is on: vision enabled globally, disabled for the planner
Stripping == options.useVision /\ ~options.useVisionForPlanner
\* the history entries after the first
HistoryTail == IF Len(messages) = 0 THEN <<>> ELSE Tail(messages)
\* the text of a message: its string content, or its text segments in order
TextOf(m) == IF m.isArray THEN ConcatText(m.segs) ELSE m.content

C16_StripFinalMessage ==
  IsSome(llmInput) =>
    LET input == Get(llmInput)
        original == <<SystemMessage>> \o HistoryTail
        n == Len(original)
    IN /\ Len(input) = n
       /\ \A i \in 1..(n - 1) : input[i] = original[i]
       /\ ~Stripping => input[n] = original[n]
       /\ (Stripping /\ original[n].isArray) =>
            /\ ~input[n].isArray
            /\ input[n].content = ConcatText(original[n].segs)
       /\ (Stripping /\ ~original[n].isArray) => input[n] = original[n]

\* C17: execute never changes the context: history, step index, vision flags
\* and planner config stay what they were, in every step of every invocation.
C17_ContextUnchanged ==
  [][/\ messages' = messages
     /\ nSteps' = nSteps
     /\ options' = options
     /\ plannerConfig' = plannerConfig]_vars

C17_Witness ==
  /\ pc = "returned"
  /\ Stripping
  /\ Len(messages) = 2
  /\ messages[2].isArray
  /\ ~Get(llmInput)[2].isArray
  /\ Get(llmInput)[2].content = <<"x", "y">>


\* ------------------------------------------ executeWithServerPlan on its own
\* endpoint bases of up to MaxEndpointLen characters (the empty one included)
EndpointBases == SeqsUpTo({"h", "/"}, MaxEndpointLen)

ServerPlanConfigs ==
  {None} \cup
  {Some([useServerForFirstPlan |-> u, serverPlanEndpoint |-> e]) :
     u \in {None, Some(TRUE), Some(FALSE)},
     e \in {None} \cup {Some(x) : x \in EndpointBases}}

InitServerPlan ==
  /\ nSteps = 0
  /\ options = [useVision |-> FALSE, useVisionForPlanner |-> FALSE]
  /\ messages = <<>>
  /\ plannerConfig \in ServerPlanConfigs
  /\ aborted \in BOOLEAN
  /\ abortedAt = "never"
  /\ pc = "call"
  /\ plannerMessages = <<>>
  /\ events = <<>>
  /\ outcome = None
  /\ thrown = None
  /\ remoteRequests = 0
  /\ requestUrl = None
  /\ serverError = None
  /\ planOutput = None
  /\ serverPlan = None
  /\ modelOutput = None
  /\ caught = None
  /\ llmCalls = 0
  /\ llmInput = None
  /\ inflight = {}
  /\ SchemaIdle
  /\ InitServiceIdle

\* lines 169-184: executeWithServerPlan up to its suspension on fetch;
\* serverError holds the error it throws
CallServerPlan ==
  /\ pc = "call"
  /\ IF ~EndpointConfigured
     THEN /\ pc' = "failed"
          /\ serverError' = Some(EndpointError)
          /\ UNCHANGED <<remoteRequests, requestUrl, inflight>>
     ELSE /\ pc' = "fetch"
          /\ remoteRequests' = remoteRequests + 1
          /\ requestUrl' = Some(ApiUrl(Get(Get(plannerConfig).serverPlanEndpoint)))
          /\ inflight' = inflight \cup {"fetch"}
          /\ UNCHANGED serverError
  /\ UNCHANGED <<ctxVars, aborted, abortedAt, plannerMessages, events, outcome, thrown,
                 planOutput, serverPlan, modelOutput, caught, llmCalls, llmInput>>
  /\ UNCHANGED auxVars

NextServerPlan == CallServerPlan

SpecServerPlan == InitServerPlan /\ [][NextServerPlan]_vars

\* C18: the request URL is the configured base without its last character
\* when that is a slash (one slash only), the base itself otherwise, followed
\* by /planner/ReplyMessage/Facebook; without an endpoint
\* executeWithServerPlan fails before any request is issued.
EndpointMissing ==
  \/ plannerConfig = None
  \/ Get(plannerConfig).serverPlanEndpoint = None
  \/ Get(plannerConfig).serverPlanEndpoint = Some(EmptyStr)

C18_RequestUrl ==
  pc \in {"fetch", "failed"} =>
    IF EndpointMissing
    THEN /\ pc = "failed"
         /\ serverError = Some(MkError("Error", <<"Server plan endpoint not configured">>, {}))
         /\ remoteRequests = 0
         /\ requestUrl = None
         /\ inflight = {}
    ELSE LET base == Get(Get(plannerConfig).serverPlanEndpoint)
             kept == IF base[Len(base)] = "/" THEN Len(base) - 1 ELSE Len(base)
             url == Get(requestUrl)
         IN /\ pc = "fetch"
            /\ remoteRequests = 1
            /\ Len(url) = kept + 1
            /\ \A i \in 1..kept : url[i] = base[i]
            /\ url[kept + 1] = "/planner/ReplyMessage/Facebook"

C18_Witness ==
  /\ pc = "fetch"
  /\ Get(plannerConfig).serverPlanEndpoint = Some(<<"h", "/", "/">>)
  /\ requestUrl = Some(<<"h", "/", "/planner/ReplyMessage/Facebook">>)


\* ------------------------------- InitializationService (initialization.ts)
\* One process per call of ensureDefaultConfiguration; a call suspends on
\* each store operation, whose effect takes place when it resolves.  Calls
\* overlap freely; a store operation may reject, leaving the store as it was.
replyzyProviderId == "replyzy"

\* slip: only the default provider counts
HasProviders_defaultOnly(ids) == replyzyProviderId \in ids

\* line 18: Object.keys(providers).length > 0
HasProviders(ids) == Cardinality(ids) > 0

\* slip: pasted call still names the Navigator
SetAgentModel_navigator(models, agent, provider) ==
  [models EXCEPT !["navigator"] = Some(provider)]

\* agentModelStore.setAgentModel(agent, {provider, ...}), lines 52-57, 62-67
SetAgentModel(models, agent, provider) == [models EXCEPT ![agent] = Some(provider)]

\* llmProviderStore.setProvider(id, ...), line 41
SetProvider(ids, id) == ids \cup {id}

\* lines 71-74: the catch clause takes every error and does not rethrow
InitErrorCaught == TRUE

InitService ==
  /\ PlannerOff
  /\ SchemaIdle
  /\ providers \in {{}, {"user"}}
  /\ agentModels = [a \in Agents |-> None]
  /\ initPc = [p \in Calls |-> "idle"]
  /\ snapshot = [p \in Calls |-> None]
  /\ writes = [p \in Calls |-> 0]

\* lines 14-17: the call starts and awaits getAllProviders
EnsureStart(p) ==
  /\ initPc[p] = "idle"
  /\ initPc' = [initPc EXCEPT ![p] = "getAllProviders"]
  /\ UNCHANGED <<providers, agentModels, snapshot, writes>>
  /\ UNCHANGED <<plannerVars, schemaVars>>

\* lines 17-41: getAllProviders resolves; return if providers exist,
\* otherwise issue setProvider
GetAllProvidersResolves(p) ==
  /\ initPc[p] = "getAllProviders"
  /\ snapshot' = [snapshot EXCEPT ![p] = Some(providers)]
  /\ IF HasProviders(providers)
     THEN /\ initPc' = [initPc EXCEPT ![p] = "done"]
          /\ UNCHANGED writes
     ELSE /\ initPc' = [initPc EXCEPT ![p] = "setProvider"]
          /\ writes' = [writes EXCEPT ![p] = @ + 1]
  /\ UNCHANGED <<providers, agentModels>>
  /\ UNCHANGED <<plannerVars, schemaVars>>

\* lines 41-57: setProvider resolves; issue setAgentModel for the Planner
SetProviderResolves(p) ==
  /\ initPc[p] = "setProvider"
  /\ providers' = SetProvider(providers, replyzyProviderId)
  /\ initPc' = [initPc EXCEPT ![p] = "setPlanner"]
  /\ writes' = [writes EXCEPT ![p] = @ + 1]
  /\ UNCHANGED <<agentModels, snapshot>>
  /\ UNCHANGED <<plannerVars, schemaVars>>

\* lines 52-67: the Planner model is stored; issue setAgentModel for the Navigator
SetPlannerResolves(p) ==
  /\ initPc[p] = "setPlanner"
  /\ agentModels' = SetAgentModel(agentModels, "planner", replyzyProviderId)
  /\ initPc' = [initPc EXCEPT ![p] = "setNavigator"]
  /\ writes' = [writes EXCEPT ![p] = @ + 1]
  /\ UNCHANGED <<providers, snapshot>>
  /\ UNCHANGED <<plannerVars, schemaVars>>

\* lines 62-70: the Navigator model is stored; the call completes
SetNavigatorResolves(p) ==
  /\ initPc[p] = "setNavigator"
  /\ agentModels' = SetAgentModel(agentModels, "navigator", replyzyProviderId)
  /\ initPc' = [initPc EXCEPT ![p] = "done"]
  /\ UNCHANGED <<providers, snapshot, writes>>
  /\ UNCHANGED <<plannerVars, schemaVars>>

\* lines 71-74: the pending store operation rejects; the error is logged and
\* the call completes
StoreRejects(p) ==
  /\ initPc[p] \in {"getAllProviders", "setProvider", "setPlanner", "setNavigator"}
  /\ initPc' = [initPc EXCEPT ![p] = IF InitErrorCaught THEN "done" ELSE "threw"]
  /\ UNCHANGED <<providers, agentModels, snapshot, writes>>
  /\ UNCHANGED <<plannerVars, schemaVars>>

NextInit ==
  \E p \in Calls :
    \/ EnsureStart(p)
    \/ GetAllProvidersResolves(p)
    \/ SetProviderResolves(p)
    \/ SetPlannerResolves(p)
    \/ SetNavigatorResolves(p)
    \/ StoreRejects(p)

SpecInit == InitService /\ [][NextInit]_vars

\* C19: a call that finds at least one provider in the store issues no write
\* to either store, and no call ever throws to its caller, whatever store
\* operation fails.
C19_SkipWhenProvidersExist ==
  \A p \in Calls :
    /\ (IsSome(snapshot[p]) /\ Get(snapshot[p]) # {}) => (writes[p] = 0 /\ initPc[p] = "done")
    /\ (IsSome(snapshot[p]) /\ Get(snapshot[p]) = {}) => writes[p] >= 1
    /\ IsNone(snapshot[p]) => writes[p] = 0
    /\ initPc[p] # "threw"

C19_Witness ==
  /\ \A p \in Calls : initPc[p] = "done"
  /\ snapshot[1] = Some({})
  /\ writes[1] = 3
  /\ snapshot[2] = Some({replyzyProviderId})
  /\ writes[2] = 0
  /\ agentModels["navigator"] = Some(replyzyProviderId)

AllCallsDone == \A p \in Calls : initPc[p] = "done"
StartedEmpty == "user" \notin providers
FullySetUp ==
  /\ replyzyProviderId \in providers
  /\ \A a \in Agents : agentModels[a] = Some(replyzyProviderId)
NothingSetUp ==
  /\ replyzyProviderId \notin providers
  /\ \A a \in Agents : agentModels[a] = None

\* C20 (as stated): starting from empty stores, once all calls have
\* completed the default setup is all-or-nothing: no default provider, or
\* the provider together with both agent models.
C20_AllOrNothing ==
  (AllCallsDone /\ StartedEmpty) => (NothingSetUp \/ FullySetUp)

\* C20 (amended): starting from empty stores, at any time and so once all
\* calls have completed, an agent model exists only together with the default
\* provider it names, and the Navigator model only together with the Planner
\* model; every call that read a store already holding the provider has
\* written nothing, so an incomplete setup is not repaired.
C20_SetupInOrder ==
  StartedEmpty =>
    /\ \A a \in Agents :
         IsSome(agentModels[a]) =>
           (agentModels[a] = Some(replyzyProviderId) /\ replyzyProviderId \in providers)
    /\ IsSome(agentModels["navigator"]) => IsSome(agentModels["planner"])
    /\ providers \subseteq {replyzyProviderId}
    /\ \A p \in Calls :
         (IsSome(snapshot[p]) /\ replyzyProviderId \in Get(snapshot[p])) => writes[p] = 0

C20_Witness ==
  /\ AllCallsDone
  /\ StartedEmpty
  /\ replyzyProviderId \in providers
  /\ agentModels["planner"] = Some(replyzyProviderId)
  /\ agentModels["navigator"] = None
  /\ snapshot[2] = Some({replyzyProviderId})

====
